---- MODULE Spec2Model ----
(***************************************************************************)
(* stacker/actions/build.py: the build action.  Parameter resolution, the  *)
(* missing-parameter fallback, the per-stack launch state machine, the     *)
(* plan builder and the build orchestrator (pre_run / run / post_run).     *)
(***************************************************************************)
EXTENDS FiniteSets, Integers, Sequences, TLC

VARIABLES
    unit,       \* a direct call of one module-level function / method under test
    stacks,     \* context.get_stacks_dict(): fqn -> stack definition
    remote,     \* the provider's deployed state: fqn -> description or NoStack
    lpc,        \* fqn -> position of that stack's _launch_stack invocation
    loc,        \* fqn -> local variables of that invocation
    calls,      \* fqn -> calls made by the current invocation, in order
    result,     \* fqn -> what the current invocation returned or raised
    history,    \* fqn -> completed invocations: <<[result, calls], ...>>
    opts,       \* the build's flags: outline, dump
    config,     \* context.config: pre_build / post_build hook lists (truthiness)
    bpc,        \* position of the build driver
    blog,       \* calls made by pre_run / run / post_run, in order
    plan        \* the plan built by _generate_plan: fqn -> node, or NoPlan

vars == <<unit, stacks, remote, lpc, loc, calls, result, history,
          opts, config, bpc, blog, plan>>

launchVars == <<stacks, remote, lpc, loc, calls, result, history>>
buildVars == <<opts, config, bpc, blog, plan>>

----------------------------------------------------------------------------
(* Bounds *)

NumKeys == 2
MaxRemoteParams == 2
NumLaunchKeys == 1
MaxLaunches == 2
NumStacks == 2

KeyNames == <<"Size", "Name", "Env", "Zone">>
Keys == {KeyNames[i] : i \in 1..NumKeys}
LaunchKeys == {KeyNames[i] : i \in 1..NumLaunchKeys}

StackNames == <<"A", "B", "C", "D">>
Stacks == {StackNames[i] : i \in 1..NumStacks}

----------------------------------------------------------------------------
(* Python values: <<type name, str(value)>> *)

NoneV == <<"NoneType", "None">>
TrueV == <<"bool", "True">>
FalseV == <<"bool", "False">>
StrV(text) == <<"str", text>>
IntV(text) == <<"int", text>>

\* The values a stack definition may give a parameter.
SuppliedValues == {NoneV, TrueV, FalseV, StrV("true"), StrV("4"), IntV("4")}
\* The values a deployed stack reports for a parameter (always strings).
RemoteValues == {StrV("4"), StrV("5")}

\* dict: a function from a finite set of keys
Dicts(keys, values) == UNION {[d -> values] : d \in SUBSET keys}

\* isinstance(value, bool)
IsBool(value) == value[1] = "bool"

\* text.lower(), on the texts str() yields for the values of the model
Lower(text) ==
    CASE text = "True" -> "true"
      [] text = "False" -> "false"
      [] text = "None" -> "none"
      [] OTHER -> text

\* str(value)
Str(value) == StrV(value[2])

----------------------------------------------------------------------------
(* _resolve_parameters(parameters, blueprint) *)

\* The loop over parameters.items(), one key at a time (dict order is
\* arbitrary); param_defs is blueprint.get_parameter_definitions().
RECURSIVE ResolveLoop(_, _, _, _)
ResolveLoop(todo, parameters, param_defs, params) ==
    IF todo = {} THEN params
    ELSE LET key == CHOOSE k \in todo : TRUE
             value == parameters[key]
             rest == todo \ {key}
         IN  IF key \notin param_defs
                 THEN ResolveLoop(rest, parameters, param_defs, params)
             ELSE IF value = NoneV
                 THEN ResolveLoop(rest, parameters, param_defs, params)
             ELSE LET v == IF IsBool(value) THEN StrV(Lower(Str(value)[2]))
                                            ELSE value
                  IN  ResolveLoop(rest, parameters, param_defs,
                                  [k \in DOMAIN params \cup {key} |->
                                      IF k = key THEN v ELSE params[k]])

\* a slip: None values are kept
ResolveKeepsNone(parameters, param_defs) ==
    [k \in DOMAIN parameters \cap param_defs |->
        IF IsBool(parameters[k]) THEN StrV(Lower(parameters[k][2]))
                                 ELSE parameters[k]]

_resolve_parameters(parameters, param_defs) ==
    ResolveLoop(DOMAIN parameters, parameters, param_defs, <<>>)

----------------------------------------------------------------------------
(* Action._handle_missing_parameters(params, required_params, name) *)

StackDoesNotExist == "StackDoesNotExist"
StackDidNotChange == "StackDidNotChange"
MissingParameterException == "MissingParameterException"
ProviderError == "ProviderError"

\* a deployed stack's description; the falsy one is None / {}
NoDescription == <<>>
Truthy(description) == DOMAIN description # {}
ParameterEntries == [ParameterKey : Keys, ParameterValue : RemoteValues]
SeqsUpTo(S, n) == UNION {[1..m -> S] : m \in 0..n}
Descriptions ==
    {NoDescription, [StackName |-> "stack"]}
    \cup {[StackName |-> "stack", Parameters |-> ps] :
             ps \in SeqsUpTo(ParameterEntries, MaxRemoteParams)}

\* what provider.get_stack does: return a description or raise
GetStackOutcomes ==
    {[raised |-> TRUE, exc |-> StackDoesNotExist, value |-> NoDescription]}
    \cup {[raised |-> FALSE, exc |-> "", value |-> e] : e \in Descriptions}

\* a slip: the given parameters are not subtracted
MissingParamsIgnoresGiven(params, required_params) == required_params

\* set(required_params) - set(params.keys())
MissingParams(params, required_params) == required_params \ DOMAIN params

\* {p['ParameterKey']: p['ParameterValue'] for p in existing_stack['Parameters']}
\* (a later entry of the same key overwrites an earlier one)
StackParams(existing_stack) ==
    LET ps == existing_stack.Parameters
        ks == {ps[i].ParameterKey : i \in DOMAIN ps}
        last(k) == CHOOSE i \in DOMAIN ps :
                      /\ ps[i].ParameterKey = k
                      /\ \A j \in DOMAIN ps : ps[j].ParameterKey = k => j <= i
    IN  [k \in ks |-> ps[last(k)].ParameterValue]

\* a slip: every parameter of the deployed stack is copied, over the given
\* values too
FillCopiesAll(params, missing_params, existing_stack) ==
    IF Truthy(existing_stack) /\ "Parameters" \in DOMAIN existing_stack
    THEN LET stack_params == StackParams(existing_stack)
         IN  [k \in DOMAIN params \cup DOMAIN stack_params |->
                 IF k \in DOMAIN stack_params THEN stack_params[k]
                 ELSE params[k]]
    ELSE params

\* lines 286-295: copy the deployed value of each missing parameter
FillFromExisting(params, missing_params, existing_stack) ==
    IF Truthy(existing_stack) /\ "Parameters" \in DOMAIN existing_stack
    THEN LET stack_params == StackParams(existing_stack)
             filled == missing_params \cap DOMAIN stack_params
         IN  [k \in DOMAIN params \cup filled |->
                 IF k \in filled THEN stack_params[k] ELSE params[k]]
    ELSE params

\* params.items()
Items(params) == {<<k, params[k]>> : k \in DOMAIN params}

\* a slip: the exception names the keys missing before the fallback
HandleAfterGetStackNamesAll(params, required_params, outcome) ==
    LET missing_params == MissingParams(params, required_params)
        existing_stack == IF outcome.raised THEN NoDescription ELSE outcome.value
        filled == FillFromExisting(params, missing_params, existing_stack)
        final_missing == MissingParams(filled, required_params)
    IN  IF outcome.raised /\ outcome.exc # StackDoesNotExist
        THEN [raised |-> TRUE, exc |-> outcome.exc, missing |-> {},
              items |-> {}]
        ELSE IF final_missing # {}
        THEN [raised |-> TRUE, exc |-> MissingParameterException,
              missing |-> missing_params, items |-> {}]
        ELSE [raised |-> FALSE, exc |-> "", missing |-> {},
              items |-> Items(filled)]

\* lines 281-300, given what provider.get_stack did
HandleAfterGetStack(params, required_params, outcome) ==
    LET missing_params == MissingParams(params, required_params)
        existing_stack == IF outcome.raised THEN NoDescription ELSE outcome.value
        filled == FillFromExisting(params, missing_params, existing_stack)
        final_missing == MissingParams(filled, required_params)
    IN  IF outcome.raised /\ outcome.exc # StackDoesNotExist
        THEN [raised |-> TRUE, exc |-> outcome.exc, missing |-> {},
              items |-> {}]
        ELSE IF final_missing # {}
        THEN [raised |-> TRUE, exc |-> MissingParameterException,
              missing |-> final_missing, items |-> {}]
        ELSE [raised |-> FALSE, exc |-> "", missing |-> {},
              items |-> Items(filled)]

----------------------------------------------------------------------------
(* The gates *)

\* a slip: a forced stack is still refused
should_update_ignores_force(stack) == ~stack.locked

should_update(stack) ==
    IF stack.locked
    THEN IF ~stack.force THEN FALSE ELSE TRUE
    ELSE TRUE

\* a slip: every stack is submitted
should_submit_always(stack) == TRUE

should_submit(stack) == IF stack.enabled THEN TRUE ELSE FALSE

----------------------------------------------------------------------------
(* Results and the call log of one _launch_stack invocation *)

NoResult ==
    [kind |-> "none", name |-> "", detail |-> "", from |-> "", missing |-> {}]
Status(name, detail) ==
    [kind |-> "status", name |-> name, detail |-> detail, from |-> "",
     missing |-> {}]
Raised(exc, from, missing) ==
    [kind |-> "raised", name |-> exc, detail |-> "", from |-> from,
     missing |-> missing]

NotSubmittedStatus == Status("NotSubmittedStatus", "")
NotUpdatedStatus == Status("NotUpdatedStatus", "")
DidNotChangeStatus == Status("DidNotChangeStatus", "")
SubmittedStatus(detail) == Status("SubmittedStatus", detail)

\* a call, its arguments and what it did: "ok", a value or the exception raised
Call(name, args, outcome) == [name |-> name, args |-> args, outcome |-> outcome]
BoolText(b) == IF b THEN "True" ELSE "False"
CallNames(log) == {log[i].name : i \in DOMAIN log}

NoLocals ==
    [template_url |-> "", tags |-> {}, params |-> <<>>, parameters |-> {}]

----------------------------------------------------------------------------
(* Collaborators of the launch: the stack, the template publisher, the     *)
(* provider                                                                *)

NoStack == [exists |-> FALSE]

\* self.context.tags
ContextTags == [stacker_namespace |-> "ns"]

\* what stack.resolve(context, provider) does: return, or raise
ResolveOutcomes == {"ok", StackDoesNotExist, ProviderError}

\* what s3_stack_push(blueprint) does: return the URL of the blueprint's
\* rendered template, or raise
PushOutcomes == {"ok", "PushError"}
TemplateUrl(stack) == stack.template

\* the deployed stack a create or an update leaves behind
Deployed(template_url, parameters, tags) ==
    [exists |-> TRUE, TemplateURL |-> template_url,
     Parameters |-> parameters, Tags |-> tags]

\* the description the provider gives of a deployed stack: the Parameters
\* key is there only when the stack has parameters
RECURSIVE ParameterList(_)
ParameterList(parameters) ==
    IF parameters = {} THEN <<>>
    ELSE LET p == CHOOSE q \in parameters :
                     \A r \in parameters :
                         \E i, j \in DOMAIN KeyNames :
                             /\ KeyNames[i] = q.ParameterKey
                             /\ KeyNames[j] = r.ParameterKey
                             /\ i <= j
         IN  <<p>> \o ParameterList(parameters \ {p})

Describe(fqn, deployed) ==
    IF deployed.Parameters = {}
    THEN [StackName |-> fqn]
    ELSE [StackName |-> fqn, Parameters |-> ParameterList(deployed.Parameters)]

\* provider.get_stack(fqn)
ProviderGetStack(fqn) ==
    {IF remote[fqn].exists
     THEN [raised |-> FALSE, exc |-> "", value |-> Describe(fqn, remote[fqn])]
     ELSE [raised |-> TRUE, exc |-> StackDoesNotExist, value |-> NoDescription],
     [raised |-> TRUE, exc |-> ProviderError, value |-> NoDescription]}

\* provider.update_stack(fqn, template_url, parameters, tags)
ProviderUpdateStack(fqn, template_url, parameters, tags) ==
    {IF ~remote[fqn].exists THEN StackDoesNotExist
     ELSE IF remote[fqn] = Deployed(template_url, parameters, tags)
          THEN StackDidNotChange
          ELSE "ok",
     ProviderError}

\* provider.create_stack(fqn, template_url, parameters, tags)
ProviderCreateStack(fqn, template_url, parameters, tags) ==
    {IF remote[fqn].exists THEN ProviderError ELSE "ok", ProviderError}

----------------------------------------------------------------------------
(* Action.build_parameters and Action._build_stack_tags *)

\* [{'ParameterKey': p[0], 'ParameterValue': str(p[1])} for p in parameters]
ParameterDicts(items) ==
    {[ParameterKey |-> p[1], ParameterValue |-> Str(p[2])] : p \in items}

\* [{'Key': t[0], 'Value': t[1]} for t in self.context.tags.items()]
_build_stack_tags(tags) ==
    {[Key |-> k, Value |-> tags[k]] : k \in DOMAIN tags}

----------------------------------------------------------------------------
(* Action._launch_stack(stack), one step per round trip *)

Log(s, names) == [i \in 1..Len(names) |-> Call(names[i], <<s>>, "ok")]

\* the invocation ends: it returns a Status or raises
Finish(s, res, log) ==
    /\ result' = [result EXCEPT ![s] = res]
    /\ calls' = [calls EXCEPT ![s] = log]
    /\ lpc' = [lpc EXCEPT ![s] = "done"]

\* the invocation goes on to its next round trip
Goto(s, label, log) ==
    /\ result' = result
    /\ calls' = [calls EXCEPT ![s] = log]
    /\ lpc' = [lpc EXCEPT ![s] = label]

\* lines 163-164: the update gate, once the parameters are built
Gate(s, log) ==
    LET log2 == log \o <<Call("should_update", <<s>>,
                                BoolText(should_update(stacks[s])))>>
    IN  IF ~should_update(stacks[s])
        THEN Finish(s, NotUpdatedStatus, log2)
        ELSE Goto(s, "update_stack", log2)

\* a slip: the update gate is evaluated on entry, before the stack is
\* resolved and its template pushed
BeginLaunchGateFirst(s) ==
    /\ loc' = [loc EXCEPT ![s] = NoLocals]
    /\ IF ~should_submit(stacks[s])
       THEN Finish(s, NotSubmittedStatus,
                   <<Call("should_submit", <<s>>, "False")>>)
       ELSE IF ~should_update(stacks[s])
       THEN Finish(s, NotUpdatedStatus,
                   <<Call("should_submit", <<s>>, "True"),
                     Call("should_update", <<s>>, "False")>>)
       ELSE Goto(s, "resolve", <<Call("should_submit", <<s>>, "True")>>)

\* lines 148-152: _launch_stack is entered (by the caller named in the driver)
BeginLaunch(s) ==
    /\ loc' = [loc EXCEPT ![s] = NoLocals]
    /\ IF ~should_submit(stacks[s])
       THEN /\ result' = [result EXCEPT ![s] = NotSubmittedStatus]
            /\ calls' = [calls EXCEPT ![s] =
                            <<Call("should_submit", <<s>>, "False")>>]
            /\ lpc' = [lpc EXCEPT ![s] = "done"]
       ELSE /\ result' = [result EXCEPT ![s] = NoResult]
            /\ calls' = [calls EXCEPT ![s] =
                            <<Call("should_submit", <<s>>, "True")>>]
            /\ lpc' = [lpc EXCEPT ![s] = "resolve"]

\* line 152: stack.resolve(self.context, self.provider)
Resolve(s) ==
    /\ lpc[s] = "resolve"
    /\ \E outcome \in ResolveOutcomes :
          LET log == calls[s] \o <<Call("resolve", <<s>>, outcome)>>
          IN  IF outcome # "ok"
              THEN Finish(s, Raised(outcome, "resolve", {}), log)
              ELSE Goto(s, "s3_stack_push", log)
    /\ UNCHANGED <<unit, stacks, remote, loc, history, buildVars>>

\* a slip: the template URL, tags and parameters are kept on the action,
\* which every launch shares, not in local variables
PushSharedLocals(s) ==
    /\ lpc[s] = "s3_stack_push"
    /\ \E outcome \in PushOutcomes :
          IF outcome # "ok"
          THEN /\ Finish(s, Raised(outcome, "s3_stack_push", {}),
                         calls[s] \o <<Call("s3_stack_push", <<s>>, outcome)>>)
               /\ loc' = loc
          ELSE LET template_url == TemplateUrl(stacks[s])
                   tags == _build_stack_tags(ContextTags)
                   resolved == _resolve_parameters(stacks[s].parameter_values,
                                                   stacks[s].param_defs)
                   missing_params == MissingParams(resolved, stacks[s].required)
                   log == calls[s] \o
                          Log(s, <<"s3_stack_push", "_build_stack_tags",
                                   "build_parameters", "_resolve_parameters",
                                   "_handle_missing_parameters">>)
               IN  IF missing_params # {}
                   THEN /\ loc' = [u \in DOMAIN loc |->
                                     [template_url |-> template_url,
                                      tags |-> tags, params |-> resolved,
                                      parameters |-> {}]]
                        /\ Goto(s, "get_stack", log)
                   ELSE /\ loc' = [u \in DOMAIN loc |->
                                     [template_url |-> template_url,
                                      tags |-> tags, params |-> resolved,
                                      parameters |->
                                          ParameterDicts(Items(resolved))]]
                        /\ Gate(s, log)
    /\ UNCHANGED <<unit, stacks, remote, history, buildVars>>

\* lines 155-157 and 127-130, 273-279: push the template, build the tags,
\* resolve the parameters, up to the call of provider.get_stack if any
Push(s) ==
    /\ lpc[s] = "s3_stack_push"
    /\ \E outcome \in PushOutcomes :
          IF outcome # "ok"
          THEN /\ Finish(s, Raised(outcome, "s3_stack_push", {}),
                         calls[s] \o <<Call("s3_stack_push", <<s>>, outcome)>>)
               /\ loc' = loc
          ELSE LET template_url == TemplateUrl(stacks[s])
                   tags == _build_stack_tags(ContextTags)
                   resolved == _resolve_parameters(stacks[s].parameter_values,
                                                   stacks[s].param_defs)
                   missing_params == MissingParams(resolved, stacks[s].required)
                   log == calls[s] \o
                          Log(s, <<"s3_stack_push", "_build_stack_tags",
                                   "build_parameters", "_resolve_parameters",
                                   "_handle_missing_parameters">>)
               IN  IF missing_params # {}
                   THEN /\ loc' = [loc EXCEPT ![s] =
                                     [template_url |-> template_url,
                                      tags |-> tags, params |-> resolved,
                                      parameters |-> {}]]
                        /\ Goto(s, "get_stack", log)
                   ELSE /\ loc' = [loc EXCEPT ![s] =
                                     [template_url |-> template_url,
                                      tags |-> tags, params |-> resolved,
                                      parameters |->
                                          ParameterDicts(Items(resolved))]]
                        /\ Gate(s, log)
    /\ UNCHANGED <<unit, stacks, remote, history, buildVars>>

\* lines 281-300 and 131-134: provider.get_stack, the fallback, the rest of
\* build_parameters, then the update gate
GetStack(s) ==
    /\ lpc[s] = "get_stack"
    /\ \E outcome \in ProviderGetStack(s) :
          LET got == HandleAfterGetStack(loc[s].params, stacks[s].required,
                                         outcome)
              log == calls[s] \o
                     <<Call("get_stack", <<s>>,
                            IF outcome.raised THEN outcome.exc ELSE "ok")>>
          IN  IF got.raised
              THEN /\ Finish(s, Raised(got.exc,
                                       IF got.exc = MissingParameterException
                                       THEN "_handle_missing_parameters"
                                       ELSE "get_stack", got.missing), log)
                   /\ loc' = loc
              ELSE /\ loc' = [loc EXCEPT
                                ![s].params = [k \in {p[1] : p \in got.items} |->
                                    (CHOOSE p \in got.items : p[1] = k)[2]],
                                ![s].parameters = ParameterDicts(got.items)]
                   /\ Gate(s, log)
    /\ UNCHANGED <<unit, stacks, remote, history, buildVars>>

SubmitArgs(s) == <<s, loc[s].template_url, loc[s].parameters, loc[s].tags>>

\* a slip: "no changes" is reported as a submitted update
UpdateResultAlwaysSubmitted(outcome) ==
    CASE outcome = "ok" -> SubmittedStatus("UPDATING_STACK")
      [] outcome = StackDidNotChange -> SubmittedStatus("UPDATING_STACK")
      [] outcome = StackDoesNotExist -> NoResult
      [] OTHER -> Raised(outcome, "update_stack", {})

\* a slip: no handler for StackDidNotChange
UpdateResultNoHandler(outcome) ==
    CASE outcome = "ok" -> SubmittedStatus("UPDATING_STACK")
      [] outcome = StackDoesNotExist -> NoResult
      [] OTHER -> Raised(outcome, "update_stack", {})

\* a slip: "no changes" falls through to create_stack
UpdateResultCreatesOnNoChange(outcome) ==
    CASE outcome = "ok" -> SubmittedStatus("UPDATING_STACK")
      [] outcome = StackDidNotChange -> NoResult
      [] outcome = StackDoesNotExist -> NoResult
      [] OTHER -> Raised(outcome, "update_stack", {})

\* a slip: a bare except, every error of update_stack leads to create_stack
UpdateResultCreatesOnAnyError(outcome) ==
    CASE outcome = "ok" -> SubmittedStatus("UPDATING_STACK")
      [] outcome = StackDidNotChange -> DidNotChangeStatus
      [] OTHER -> NoResult

\* lines 166-173: what the try statement makes of update_stack's outcome;
\* NoResult: the handler goes on to create_stack
UpdateResult(outcome) ==
    CASE outcome = "ok" -> SubmittedStatus("UPDATING_STACK")
      [] outcome = StackDidNotChange -> DidNotChangeStatus
      [] outcome = StackDoesNotExist -> NoResult
      [] OTHER -> Raised(outcome, "update_stack", {})

\* a slip: update_stack is called again after an error of the provider
UpdateStackRetries(s) ==
    /\ lpc[s] = "update_stack"
    /\ \E outcome \in ProviderUpdateStack(s, loc[s].template_url,
                                          loc[s].parameters, loc[s].tags) :
          LET log == calls[s] \o
                     <<Call("update_stack", SubmitArgs(s), outcome)>>
              res == UpdateResult(outcome)
          IN  /\ IF res = NoResult
                 THEN Goto(s, "create_stack", log)
                 ELSE IF res.kind = "raised"
                 THEN Goto(s, "update_stack", log)
                 ELSE Finish(s, res, log)
              /\ remote' = IF outcome = "ok"
                           THEN [remote EXCEPT ![s] =
                                   Deployed(loc[s].template_url,
                                            loc[s].parameters, loc[s].tags)]
                           ELSE remote
    /\ UNCHANGED <<unit, stacks, loc, history, buildVars>>

\* lines 166-174: provider.update_stack(fqn, template_url, parameters, tags)
UpdateStack(s) ==
    /\ lpc[s] = "update_stack"
    /\ \E outcome \in ProviderUpdateStack(s, loc[s].template_url,
                                          loc[s].parameters, loc[s].tags) :
          LET log == calls[s] \o
                     <<Call("update_stack", SubmitArgs(s), outcome)>>
              res == UpdateResult(outcome)
          IN  /\ IF res = NoResult
                 THEN Goto(s, "create_stack", log)
                 ELSE Finish(s, res, log)
              /\ remote' = IF outcome = "ok"
                           THEN [remote EXCEPT ![s] =
                                   Deployed(loc[s].template_url,
                                            loc[s].parameters, loc[s].tags)]
                           ELSE remote
    /\ UNCHANGED <<unit, stacks, loc, history, buildVars>>

\* a slip: the handler creates the stack without the tags
CreateArgsNoTags(s) == <<s, loc[s].template_url, loc[s].parameters, {}>>

\* lines 175-176: the arguments of create_stack are the local variables the
\* update_stack call was given
CreateArgs(s) == <<s, loc[s].template_url, loc[s].parameters, loc[s].tags>>

\* lines 175-177: provider.create_stack(fqn, template_url, parameters, tags)
CreateStack(s) ==
    /\ lpc[s] = "create_stack"
    /\ LET args == CreateArgs(s)
       IN  \E outcome \in ProviderCreateStack(args[1], args[2], args[3],
                                               args[4]) :
              LET log == calls[s] \o
                         <<Call("create_stack", args, outcome)>>
              IN  /\ IF outcome = "ok"
                     THEN Finish(s, SubmittedStatus("CREATE_STACK"), log)
                     ELSE Finish(s, Raised(outcome, "create_stack", {}), log)
                  /\ remote' = IF outcome = "ok"
                               THEN [remote EXCEPT ![s] =
                                       Deployed(args[2], args[3], args[4])]
                               ELSE remote
    /\ UNCHANGED <<unit, stacks, loc, history, buildVars>>

----------------------------------------------------------------------------
(* States in which a part of the program is not in use *)

NoUnit == [op |-> "none"]
NoLaunches ==
    /\ stacks = <<>>
    /\ remote = <<>>
    /\ lpc = <<>>
    /\ loc = <<>>
    /\ calls = <<>>
    /\ result = <<>>
    /\ history = <<>>
NoPlan == [built |-> FALSE]
NoBuild ==
    /\ opts = [outline |-> FALSE, dump |-> FALSE]
    /\ config = [pre_build |-> FALSE, post_build |-> FALSE]
    /\ bpc = "none"
    /\ blog = <<>>
    /\ plan = NoPlan

----------------------------------------------------------------------------
(* _resolve_parameters called directly, on every parameter map and        *)
(* every set of declared parameters                                        *)

InitResolve ==
    /\ \E parameters \in Dicts(Keys, SuppliedValues), param_defs \in SUBSET Keys :
          unit = [op |-> "_resolve_parameters", pc |-> "call",
                  parameters |-> parameters, param_defs |-> param_defs,
                  given |-> parameters, params |-> <<>>]
    /\ NoLaunches
    /\ NoBuild

CallResolve ==
    /\ unit.op = "_resolve_parameters"
    /\ unit.pc = "call"
    /\ unit' = [unit EXCEPT
                  !.pc = "returned",
                  !.params = _resolve_parameters(unit.parameters,
                                                 unit.param_defs)]
    /\ UNCHANGED <<launchVars, buildVars>>

NextResolve == CallResolve

SpecResolve == InitResolve /\ [][NextResolve]_vars

----------------------------------------------------------------------------
(* Action._handle_missing_parameters called directly, against a provider  *)
(* whose get_stack answers with a given description or StackDoesNotExist   *)

\* the values a resolved parameter map may hold
ResolvedValues == {StrV("true"), StrV("4"), IntV("4")}

InitFallback ==
    /\ \E params \in Dicts(Keys, ResolvedValues), required_params \in SUBSET Keys,
          outcome \in GetStackOutcomes :
          unit = [op |-> "_handle_missing_parameters", pc |-> "call",
                  params |-> params, required_params |-> required_params,
                  get_stack |-> outcome, get_stack_calls |-> 0,
                  raised |-> FALSE, exc |-> "", missing |-> {}, items |-> {}]
    /\ NoLaunches
    /\ NoBuild

\* lines 273-300
CallHandleMissing ==
    /\ unit.op = "_handle_missing_parameters"
    /\ unit.pc = "call"
    /\ LET missing_params == MissingParams(unit.params, unit.required_params)
           got == HandleAfterGetStack(unit.params, unit.required_params,
                                      unit.get_stack)
       IN  IF missing_params # {}
           THEN unit' = [unit EXCEPT
                           !.pc = "returned",
                           !.get_stack_calls = unit.get_stack_calls + 1,
                           !.raised = got.raised, !.exc = got.exc,
                           !.missing = got.missing, !.items = got.items]
           ELSE unit' = [unit EXCEPT
                           !.pc = "returned",
                           !.items = Items(unit.params)]
    /\ UNCHANGED <<launchVars, buildVars>>

NextFallback == CallHandleMissing

SpecFallback == InitFallback /\ [][NextFallback]_vars

----------------------------------------------------------------------------
(* _launch_stack called directly, up to MaxLaunches times in sequence, on  *)
(* one stack, against a provider that keeps the deployed stack             *)

\* the values the launched stack's definition may give a parameter
LaunchValues == {NoneV, TrueV, StrV("4")}

StackDefs(names) ==
    {d \in [enabled : BOOLEAN, locked : BOOLEAN, force : BOOLEAN,
            parameter_values : Dicts(LaunchKeys, LaunchValues),
            param_defs : SUBSET LaunchKeys, required : SUBSET LaunchKeys,
            requires : SUBSET names, template : {"v2"}] :
        d.required \subseteq d.param_defs}

RemoteStates ==
    {NoStack}
    \cup {Deployed(u, ParameterDicts(Items(d)), _build_stack_tags(ContextTags)) :
             u \in {"v1", "v2"}, d \in Dicts(LaunchKeys, RemoteValues)}

InitLaunch ==
    /\ unit = NoUnit
    /\ stacks \in [{"A"} -> StackDefs({})]
    /\ remote \in [{"A"} -> RemoteStates]
    /\ lpc = [s \in {"A"} |-> "idle"]
    /\ loc = [s \in {"A"} |-> NoLocals]
    /\ calls = [s \in {"A"} |-> <<>>]
    /\ result = [s \in {"A"} |-> NoResult]
    /\ history = [s \in {"A"} |-> <<>>]
    /\ NoBuild

Invocations(s) == Len(history[s]) + (IF lpc[s] = "idle" THEN 0 ELSE 1)

\* the caller invokes _launch_stack(stack), and again once it has returned
\* a Status
Invoke(s) ==
    /\ bpc = "none"
    /\ lpc[s] \in {"idle", "done"}
    /\ lpc[s] = "done" => result[s].kind = "status"
    /\ Invocations(s) < MaxLaunches
    /\ history' = [history EXCEPT ![s] =
                     IF lpc[s] = "done"
                     THEN Append(@, [result |-> result[s], calls |-> calls[s]])
                     ELSE @]
    /\ BeginLaunch(s)
    /\ UNCHANGED <<unit, stacks, remote, buildVars>>

NextLaunch ==
    \/ \E s \in DOMAIN stacks : Invoke(s)
    \/ \E s \in DOMAIN stacks : Resolve(s)
    \/ \E s \in DOMAIN stacks : Push(s)
    \/ \E s \in DOMAIN stacks : GetStack(s)
    \/ \E s \in DOMAIN stacks : UpdateStack(s)
    \/ \E s \in DOMAIN stacks : CreateStack(s)

SpecLaunch == InitLaunch /\ [][NextLaunch]_vars

----------------------------------------------------------------------------
(* Action._generate_plan and Action._get_dependencies *)

\* a slip: the requires of a stack are not recorded
_get_dependencies_empty == [fqn \in DOMAIN stacks |-> {}]

\* lines 195-199: {stack.fqn: stack.requires for stack in get_stacks()}
_get_dependencies == [fqn \in DOMAIN stacks |-> stacks[fqn].requires]

\* the names of the dependency graph: the stacks and the names they require
GraphNames(dependencies) ==
    DOMAIN dependencies \cup UNION {dependencies[k] : k \in DOMAIN dependencies}

\* BaseAction.get_stack_execution_order(dependencies): the orders it may
\* return, each name of the graph once, a stack after the names it requires
ExecutionOrders(dependencies) ==
    LET names == GraphNames(dependencies)
    IN  {order \in [1..Cardinality(names) -> names] :
            /\ \A i, j \in DOMAIN order : i # j => order[i] # order[j]
            /\ \A i, j \in DOMAIN order :
                  (order[i] \in DOMAIN dependencies
                   /\ order[j] \in dependencies[order[i]]) => j < i}

\* dependencies.get(stack_name)
DictGet(dict, key) == IF key \in DOMAIN dict THEN dict[key] ELSE {}

EmptyPlan == [built |-> TRUE, steps |-> <<>>, added |-> <<>>]

\* Plan.add(stack, run_func=..., requires=...): a step keyed by the stack's
\* fqn; added counts the adds of each key
PlanAdd(p, fqn, run_func, requires) ==
    [built |-> TRUE,
     steps |-> [k \in DOMAIN p.steps \cup {fqn} |->
                  IF k = fqn THEN [run_func |-> run_func, requires |-> requires]
                  ELSE p.steps[k]],
     added |-> [k \in DOMAIN p.added \cup {fqn} |->
                  IF k = fqn
                  THEN (IF k \in DOMAIN p.added THEN p.added[k] + 1 ELSE 1)
                  ELSE p.added[k]]]

\* lines 187-192: the loop over the execution order
RECURSIVE AddSteps(_, _, _, _)
AddSteps(p, order, dependencies, i) ==
    IF i > Len(order) THEN p
    ELSE AddSteps(PlanAdd(p, order[i], "_launch_stack",
                          DictGet(dependencies, order[i])),
                  order, dependencies, i + 1)

\* a slip: the stack is looked up with a default, no KeyError
KeyErrorNever(stacks_dict, order) == FALSE

\* lines 186 and 190: stacks[stack_name] raises KeyError for a name that is
\* no key of context.get_stacks_dict()
KeyError(stacks_dict, order) ==
    \E i \in DOMAIN order : order[i] \notin DOMAIN stacks_dict

\* lines 179-193
_generate_plan(order) == AddSteps(EmptyPlan, order, _get_dependencies, 1)

----------------------------------------------------------------------------
(* Action.pre_run, Action.run, Action.post_run, called in this order by    *)
(* BaseAction.execute with the same flags; plan.execute runs the steps     *)

BCall(name, stage, outcome) == [name |-> name, stage |-> stage, outcome |-> outcome]
BNames == {blog[i].name : i \in DOMAIN blog}

\* what util.handle_hooks does: return, or raise
HookOutcomes == {"ok", "HookFailure"}

\* a slip: the dump flag is not looked at
PreRunIgnoresDump ==
    /\ bpc = "pre_run"
    /\ LET should_run_hooks == ~opts.outline /\ config.pre_build
       IN  IF should_run_hooks
           THEN \E outcome \in HookOutcomes :
                   /\ blog' = Append(blog, BCall("handle_hooks", "pre_build",
                                                 outcome))
                   /\ bpc' = IF outcome = "ok" THEN "run" ELSE "failed"
           ELSE /\ blog' = blog
                /\ bpc' = "run"
    /\ UNCHANGED <<unit, launchVars, opts, config, plan>>

\* a slip: a failure of the pre_build hooks is swallowed
PreRunSwallowsFailure ==
    /\ bpc = "pre_run"
    /\ LET should_run_hooks ==
               ~opts.outline /\ ~opts.dump /\ config.pre_build
       IN  IF should_run_hooks
           THEN \E outcome \in HookOutcomes :
                   /\ blog' = Append(blog, BCall("handle_hooks", "pre_build",
                                                 outcome))
                   /\ bpc' = "run"
           ELSE /\ blog' = blog
                /\ bpc' = "run"
    /\ UNCHANGED <<unit, launchVars, opts, config, plan>>

\* lines 201-214
PreRun ==
    /\ bpc = "pre_run"
    /\ LET should_run_hooks ==
               ~opts.outline /\ ~opts.dump /\ config.pre_build
       IN  IF should_run_hooks
           THEN \E outcome \in HookOutcomes :
                   /\ blog' = Append(blog, BCall("handle_hooks", "pre_build",
                                                 outcome))
                   /\ bpc' = IF outcome = "ok" THEN "run" ELSE "failed"
           ELSE /\ blog' = blog
                /\ bpc' = "run"
    /\ UNCHANGED <<unit, launchVars, opts, config, plan>>

\* lines 216-231: build the plan, then outline / dump it, or call
\* plan.execute, which returns in ExecuteReturn
Run ==
    /\ bpc = "run"
    /\ \E order \in ExecutionOrders(_get_dependencies) :
          IF KeyError(stacks, order)
          THEN /\ plan' = plan
               /\ blog' = Append(blog, BCall("_generate_plan", "", "KeyError"))
               /\ bpc' = "failed"
          ELSE /\ plan' = _generate_plan(order)
               /\ IF ~opts.outline /\ ~opts.dump
                  THEN /\ blog' = blog
                           \o <<BCall("plan.outline", "DEBUG", "ok"),
                                BCall("plan.execute", "", "called")>>
                       /\ bpc' = "executing"
                  ELSE /\ blog' = blog
                           \o (IF opts.outline
                               THEN <<BCall("plan.outline", "", "ok")>>
                               ELSE <<>>)
                           \o (IF opts.dump
                               THEN <<BCall("plan.dump", "", "ok")>>
                               ELSE <<>>)
                       /\ bpc' = "post_run"
    /\ UNCHANGED <<unit, launchVars, opts, config>>

\* plan.execute: a step may run once every step it requires has completed
\* with a Status
Runnable(s) ==
    /\ s \in DOMAIN plan.steps
    /\ lpc[s] = "idle"
    /\ \A d \in plan.steps[s].requires :
          d \in DOMAIN lpc /\ lpc[d] = "done" /\ result[d].kind = "status"

\* plan.execute calls the step's run function, _launch_stack(stack)
ExecuteStep(s) ==
    /\ bpc = "executing"
    /\ Runnable(s)
    /\ plan.steps[s].run_func = "_launch_stack"
    /\ BeginLaunch(s)
    /\ UNCHANGED <<unit, stacks, remote, history, buildVars>>

\* plan.execute ends when no step runs and none can start: it returns, or,
\* if a step raised, it may raise
ExecuteReturn ==
    /\ bpc = "executing"
    /\ \A s \in DOMAIN stacks : lpc[s] \in {"idle", "done"} /\ ~Runnable(s)
    /\ \E outcome \in {"ok"} \cup
              (IF \E s \in DOMAIN stacks : result[s].kind = "raised"
               THEN {"failed"} ELSE {}) :
          /\ blog' = Append(blog, BCall("plan.execute", "", outcome))
          /\ bpc' = IF outcome = "ok" THEN "post_run" ELSE "failed"
    /\ UNCHANGED <<unit, launchVars, opts, config, plan>>

\* lines 244-252
PostRun ==
    /\ bpc = "post_run"
    /\ IF ~opts.outline /\ ~opts.dump /\ config.post_build
       THEN \E outcome \in HookOutcomes :
               /\ blog' = Append(blog, BCall("handle_hooks", "post_build",
                                             outcome))
               /\ bpc' = IF outcome = "ok" THEN "done" ELSE "failed"
       ELSE /\ blog' = blog
            /\ bpc' = "done"
    /\ UNCHANGED <<unit, launchVars, opts, config, plan>>

\* the build is cancelled between two steps: KeyboardInterrupt is raised in
\* pre_run, run or post_run
Cancel ==
    /\ bpc \in {"pre_run", "run", "executing", "post_run"}
    /\ \A s \in DOMAIN stacks : lpc[s] \in {"idle", "done"}
    /\ blog' = Append(blog, BCall("cancel", bpc, "KeyboardInterrupt"))
    /\ bpc' = "failed"
    /\ UNCHANGED <<unit, launchVars, opts, config, plan>>

\* a slip: cleanup is the last step of the sequence, skipped by an exception
CleanupOnlyOnSuccess == bpc = "done"

\* the caller of the lifecycle: cleanup is called once pre_run, run and
\* post_run have returned, and also when one of them has raised
CleanupDue == bpc \in {"done", "failed"}

\* lines 233-242: Action.cleanup calls provider.cleanup
Cleanup ==
    /\ CleanupDue
    /\ blog' = Append(blog, BCall("provider.cleanup", bpc, "ok"))
    /\ bpc' = "finished"
    /\ UNCHANGED <<unit, launchVars, opts, config, plan>>

\* a name that is no stack of the build
UnknownStack == "X"

\* the stacks of a build: disabled, locked, supplying its required
\* parameter, or leaving it to the deployed stack
BuildStackDefs(requires) ==
    {[enabled |-> k # "disabled", locked |-> k = "locked", force |-> FALSE,
      parameter_values |-> IF k = "fallback" THEN <<>>
                           ELSE [key \in {KeyNames[1]} |-> StrV("4")],
      param_defs |-> {KeyNames[1]}, required |-> {KeyNames[1]},
      requires |-> requires, template |-> "v2"] :
         k \in {"disabled", "locked", "plain", "fallback"}}

Init ==
    /\ unit = NoUnit
    /\ stacks \in [Stacks -> UNION {BuildStackDefs(r) : r \in SUBSET Stacks}]
    /\ \A s \in Stacks : \A d \in stacks[s].requires :
          \E i, j \in 1..NumStacks :
              StackNames[i] = s /\ StackNames[j] = d /\ j < i
    /\ \E deployed \in {NoStack}
              \cup {Deployed(u, {[ParameterKey |-> KeyNames[1],
                                  ParameterValue |-> StrV("4")]},
                             _build_stack_tags(ContextTags)) :
                       u \in {"v1", "v2"}} :
          remote = [s \in Stacks |-> deployed]
    /\ lpc = [s \in Stacks |-> "idle"]
    /\ loc = [s \in Stacks |-> NoLocals]
    /\ calls = [s \in Stacks |-> <<>>]
    /\ result = [s \in Stacks |-> NoResult]
    /\ history = [s \in Stacks |-> <<>>]
    /\ opts \in [outline : BOOLEAN, dump : BOOLEAN]
    /\ config \in [pre_build : BOOLEAN, post_build : BOOLEAN]
    /\ bpc = "pre_run"
    /\ blog = <<>>
    /\ plan = NoPlan

Next ==
    \/ PreRun
    \/ Run
    \/ \E s \in DOMAIN stacks : ExecuteStep(s)
    \/ \E s \in DOMAIN stacks : Resolve(s)
    \/ \E s \in DOMAIN stacks : Push(s)
    \/ \E s \in DOMAIN stacks : GetStack(s)
    \/ \E s \in DOMAIN stacks : UpdateStack(s)
    \/ \E s \in DOMAIN stacks : CreateStack(s)
    \/ ExecuteReturn
    \/ PostRun

Spec == Init /\ [][Next]_vars

----------------------------------------------------------------------------
(* plan.execute over stacks that require nothing, so that every launch may *)
(* run beside every other (SpecWorkers)                                    *)

InitWorkers ==
    /\ unit = NoUnit
    /\ stacks \in [Stacks -> BuildStackDefs({})]
    /\ \E deployed \in {NoStack}
              \cup {Deployed(u, {[ParameterKey |-> KeyNames[1],
                                  ParameterValue |-> StrV("4")]},
                             _build_stack_tags(ContextTags)) :
                       u \in {"v1", "v2"}} :
          remote = [s \in Stacks |-> deployed]
    /\ lpc = [s \in Stacks |-> "idle"]
    /\ loc = [s \in Stacks |-> NoLocals]
    /\ calls = [s \in Stacks |-> <<>>]
    /\ result = [s \in Stacks |-> NoResult]
    /\ history = [s \in Stacks |-> <<>>]
    /\ opts = [outline |-> FALSE, dump |-> FALSE]
    /\ config = [pre_build |-> FALSE, post_build |-> FALSE]
    /\ bpc = "executing"
    /\ blog = <<BCall("plan.outline", "DEBUG", "ok"),
                BCall("plan.execute", "", "called")>>
    /\ plan \in {_generate_plan(order) :
                    order \in ExecutionOrders(_get_dependencies)}

NextWorkers ==
    \/ \E s \in DOMAIN stacks : ExecuteStep(s)
    \/ \E s \in DOMAIN stacks : Resolve(s)
    \/ \E s \in DOMAIN stacks : Push(s)
    \/ \E s \in DOMAIN stacks : GetStack(s)
    \/ \E s \in DOMAIN stacks : UpdateStack(s)
    \/ \E s \in DOMAIN stacks : CreateStack(s)
    \/ ExecuteReturn

SpecWorkers == InitWorkers /\ [][NextWorkers]_vars

----------------------------------------------------------------------------
(* The whole lifecycle: pre_run, run, post_run, then cleanup, over builds  *)
(* that may name an unknown stack and may be cancelled (SpecDriver)        *)

\* the stacks of such a build: supplying the required parameter, or leaving
\* it to the deployed stack
DriverStackDefs(requires) ==
    {d \in BuildStackDefs(requires) : d.enabled /\ ~d.locked}

InitDriver ==
    /\ unit = NoUnit
    /\ stacks \in [Stacks -> UNION {DriverStackDefs(r) :
                                      r \in SUBSET (Stacks \cup {UnknownStack})}]
    /\ \A s \in Stacks : \A d \in stacks[s].requires \ {UnknownStack} :
          \E i, j \in 1..NumStacks :
              StackNames[i] = s /\ StackNames[j] = d /\ j < i
    /\ \E deployed \in {NoStack,
                         Deployed("v1", {[ParameterKey |-> KeyNames[1],
                                          ParameterValue |-> StrV("4")]},
                                  _build_stack_tags(ContextTags))} :
          remote = [s \in Stacks |-> deployed]
    /\ lpc = [s \in Stacks |-> "idle"]
    /\ loc = [s \in Stacks |-> NoLocals]
    /\ calls = [s \in Stacks |-> <<>>]
    /\ result = [s \in Stacks |-> NoResult]
    /\ history = [s \in Stacks |-> <<>>]
    /\ opts \in [outline : BOOLEAN, dump : BOOLEAN]
    /\ config = [pre_build |-> TRUE, post_build |-> TRUE]
    /\ bpc = "pre_run"
    /\ blog = <<>>
    /\ plan = NoPlan

NextDriver ==
    \/ PreRun
    \/ Run
    \/ \E s \in DOMAIN stacks : ExecuteStep(s)
    \/ \E s \in DOMAIN stacks : Resolve(s)
    \/ \E s \in DOMAIN stacks : Push(s)
    \/ \E s \in DOMAIN stacks : GetStack(s)
    \/ \E s \in DOMAIN stacks : UpdateStack(s)
    \/ \E s \in DOMAIN stacks : CreateStack(s)
    \/ ExecuteReturn
    \/ PostRun
    \/ Cancel
    \/ Cleanup

\* the build keeps running while it has a step to take
SpecDriver == InitDriver /\ [][NextDriver]_vars /\ WF_vars(NextDriver)

----------------------------------------------------------------------------
(* Claims about _resolve_parameters (SpecResolve) *)

ResolveReturned == unit.op = "_resolve_parameters" /\ unit.pc = "returned"

\* C7: _resolve_parameters(P, D) holds no key outside D, no None and no
\* boolean; a True / False of P is rendered "true" / "false"; every key of P
\* in D whose value is not None is kept, a non-boolean value unchanged; the
\* keys outside D are dropped without an error; P is left as it was given.
C7_ResolveFiltersAndCoerces ==
    ResolveReturned =>
        LET P == unit.given
            D == unit.param_defs
            out == unit.params
        IN  /\ DOMAIN out \subseteq D
            /\ \A k \in DOMAIN out : out[k] # NoneV /\ out[k][1] # "bool"
            /\ \A k \in DOMAIN P :
                  /\ (k \in D /\ P[k] # NoneV) => k \in DOMAIN out
                  /\ (k \in D /\ P[k] = TrueV) => out[k] = <<"str", "true">>
                  /\ (k \in D /\ P[k] = FalseV) => out[k] = <<"str", "false">>
                  /\ (k \in D /\ P[k] \notin {NoneV, TrueV, FalseV})
                        => out[k] = P[k]
                  /\ (k \notin D \/ P[k] = NoneV) => k \notin DOMAIN out
            /\ DOMAIN out \subseteq DOMAIN P
            /\ unit.parameters = P

\* a map with a None, and a boolean under a declared key, has been resolved
C7_Witness ==
    /\ ResolveReturned
    /\ \E k \in DOMAIN unit.given : unit.given[k] = NoneV /\ k \in unit.param_defs
    /\ \E k \in DOMAIN unit.given : unit.given[k] = TrueV /\ k \in unit.param_defs

----------------------------------------------------------------------------
(* Claims about _handle_missing_parameters (SpecFallback) *)

FallbackReturned ==
    unit.op = "_handle_missing_parameters" /\ unit.pc = "returned"

\* the parameters of the description E that get_stack answered with, as
\* (key, value) pairs; none when the stack does not exist
DeployedPairs(outcome) ==
    IF /\ ~outcome.raised
       /\ "Parameters" \in DOMAIN outcome.value
    THEN {<<outcome.value.Parameters[i].ParameterKey,
            outcome.value.Parameters[i].ParameterValue>> :
             i \in DOMAIN outcome.value.Parameters}
    ELSE {}
DeployedKeys(outcome) == {p[1] : p \in DeployedPairs(outcome)}

\* C5: with missing = R - keys(M): when every missing key is a parameter of
\* the deployed stack E (a stack that does not exist has none), the call
\* returns and gives each missing key a value E holds for it; otherwise it
\* raises MissingParameterException naming exactly missing - keys(E.parameters).
C5_FallbackResult ==
    FallbackReturned =>
        LET missing == unit.required_params \ DOMAIN unit.params
            ekeys == DeployedKeys(unit.get_stack)
        IN  IF missing \subseteq ekeys
            THEN /\ ~unit.raised
                 /\ \A k \in missing :
                       \E p \in unit.items :
                           p[1] = k /\ p \in DeployedPairs(unit.get_stack)
            ELSE /\ unit.raised
                 /\ unit.exc = MissingParameterException
                 /\ unit.missing = missing \ ekeys

\* two required keys were missing; the deployed stack had one of them, and
\* the exception names the other alone
C5_Witness ==
    /\ FallbackReturned
    /\ Cardinality(unit.required_params \ DOMAIN unit.params) = 2
    /\ Cardinality(DeployedKeys(unit.get_stack)
                   \cap (unit.required_params \ DOMAIN unit.params)) = 1
    /\ unit.raised
    /\ Cardinality(unit.missing) = 1

\* C6: when every required key is in M, the call returns exactly the pairs
\* of M, raises nothing and does not call provider.get_stack.
C6_FallbackNoOp ==
    (FallbackReturned /\ unit.required_params \subseteq DOMAIN unit.params) =>
        /\ ~unit.raised
        /\ unit.items = {<<k, unit.params[k]>> : k \in DOMAIN unit.params}
        /\ unit.get_stack_calls = 0

\* a non-empty required set, all of it given, over a deployed stack that
\* holds another value for a given key
C6_Witness ==
    /\ FallbackReturned
    /\ unit.required_params # {}
    /\ unit.required_params \subseteq DOMAIN unit.params
    /\ \E p \in DeployedPairs(unit.get_stack) :
          p[1] \in unit.required_params /\ unit.params[p[1]] # p[2]
    /\ ~unit.raised

\* C19: the map a successful _handle_missing_parameters returns has one
\* pair per key, its keys are those of the given map together with the
\* required keys the given map lacks; a key of the given map keeps the given
\* value, and a key that was lacking has a value of the deployed stack, so
\* nothing of the deployed stack is copied under any other key.
C19_FallbackOnlyFillsGaps ==
    (FallbackReturned /\ ~unit.raised) =>
        LET gaps == unit.required_params \ DOMAIN unit.params
        IN  /\ {p[1] : p \in unit.items} = DOMAIN unit.params \cup gaps
            /\ \A p, q \in unit.items : p[1] = q[1] => p = q
            /\ \A k \in DOMAIN unit.params : <<k, unit.params[k]>> \in unit.items
            /\ \A k \in gaps :
                  \E p \in DeployedPairs(unit.get_stack) :
                      p[1] = k /\ p \in unit.items

\* a gap was filled while the deployed stack held another value for a key
\* that was given
C19_Witness ==
    /\ FallbackReturned
    /\ ~unit.raised
    /\ unit.required_params \ DOMAIN unit.params # {}
    /\ \E p \in DeployedPairs(unit.get_stack) :
          p[1] \in DOMAIN unit.params /\ unit.params[p[1]] # p[2]

----------------------------------------------------------------------------
(* Claims about _launch_stack (SpecLaunch) *)

\* the invocations of _launch_stack(s) so far: the completed ones and the
\* current one
Launches(s) ==
    {[result |-> history[s][i].result, calls |-> history[s][i].calls,
      done |-> TRUE] : i \in DOMAIN history[s]}
    \cup (IF lpc[s] = "idle" THEN {}
          ELSE {[result |-> result[s], calls |-> calls[s],
                 done |-> lpc[s] = "done"]})

CallsNamed(log, name) == {i \in DOMAIN log : log[i].name = name}

\* C1: an invocation on a disabled stack returns NotSubmittedStatus at once
\* and calls none of stack.resolve, s3_stack_push, build_parameters,
\* provider.get_stack, update_stack, create_stack, whatever locked and force.
C1_DisabledNeverSubmits ==
    \A s \in DOMAIN stacks : \A L \in Launches(s) :
        ~stacks[s].enabled =>
            /\ L.done
            /\ L.result.kind = "status"
            /\ L.result.name = "NotSubmittedStatus"
            /\ CallNames(L.calls) \cap
                   {"resolve", "s3_stack_push", "build_parameters", "get_stack",
                    "update_stack", "create_stack"} = {}

\* a disabled stack that is neither locked nor missing a parameter, over a
\* deployed stack of an older template, has been launched
C1_Witness ==
    \E s \in DOMAIN stacks :
        /\ ~stacks[s].enabled /\ ~stacks[s].locked
        /\ stacks[s].required = {}
        /\ remote[s].exists /\ remote[s].TemplateURL # stacks[s].template
        /\ lpc[s] = "done"

\* build_parameters was entered and returned
ParametersBuilt(L) ==
    /\ "build_parameters" \in CallNames(L.calls)
    /\ ~(L.result.kind = "raised"
         /\ L.result.from \in {"get_stack", "_handle_missing_parameters"})

\* C2: for an enabled stack, a locked and unforced launch never calls
\* update_stack or create_stack; a completed launch whose parameters were
\* built called update_stack exactly when the stack is not locked or is
\* forced.
C2_LockedNeedsForce ==
    \A s \in DOMAIN stacks : \A L \in Launches(s) :
        stacks[s].enabled =>
            /\ (stacks[s].locked /\ ~stacks[s].force) =>
                  CallNames(L.calls) \cap {"update_stack", "create_stack"} = {}
            /\ (L.done /\ ParametersBuilt(L)) =>
                  ("update_stack" \in CallNames(L.calls)
                     <=> (~stacks[s].locked \/ stacks[s].force))

\* a locked, forced stack has called update_stack
C2_Witness ==
    \E s \in DOMAIN stacks :
        /\ stacks[s].enabled /\ stacks[s].locked /\ stacks[s].force
        /\ lpc[s] = "done"
        /\ "update_stack" \in CallNames(calls[s])

\* C3: a completed launch that called update_stack: on success it returns
\* SubmittedStatus(UPDATING_STACK) without create_stack; on StackDidNotChange
\* DidNotChangeStatus without create_stack; on StackDoesNotExist it calls
\* create_stack once and returns SubmittedStatus(CREATE_STACK) if that
\* succeeds; any other outcome is raised.  create_stack is only ever called
\* right after an update_stack that raised StackDoesNotExist.
C3_SubmitOutcomes ==
    \A s \in DOMAIN stacks : \A L \in Launches(s) :
        /\ \A i \in CallsNamed(L.calls, "create_stack") :
              /\ i > 1
              /\ L.calls[i - 1].name = "update_stack"
              /\ L.calls[i - 1].outcome = "StackDoesNotExist"
        /\ L.done =>
              \A i \in CallsNamed(L.calls, "update_stack") :
                  LET o == L.calls[i].outcome
                      creates == CallsNamed(L.calls, "create_stack")
                  IN  /\ o = "ok" =>
                            /\ L.result.kind = "status"
                            /\ L.result.name = "SubmittedStatus"
                            /\ L.result.detail = "UPDATING_STACK"
                            /\ creates = {}
                      /\ o = "StackDidNotChange" =>
                            /\ L.result.kind = "status"
                            /\ L.result.name = "DidNotChangeStatus"
                            /\ creates = {}
                      /\ o = "StackDoesNotExist" =>
                            /\ Cardinality(creates) = 1
                            /\ \A j \in creates :
                                  L.calls[j].outcome = "ok" =>
                                      /\ L.result.kind = "status"
                                      /\ L.result.name = "SubmittedStatus"
                                      /\ L.result.detail = "CREATE_STACK"
                      /\ o \notin {"ok", "StackDidNotChange", "StackDoesNotExist"}
                            => L.result.kind = "raised" /\ creates = {}

\* update_stack raised StackDoesNotExist and the create that followed succeeded
C3_Witness ==
    \E s \in DOMAIN stacks :
        /\ lpc[s] = "done"
        /\ \E i \in CallsNamed(calls[s], "update_stack") :
              calls[s][i].outcome = "StackDoesNotExist"
        /\ result[s].name = "SubmittedStatus"
        /\ result[s].detail = "CREATE_STACK"

Signals == {"StackDoesNotExist", "StackDidNotChange"}

\* C4 as stated: no launch ends by raising StackDoesNotExist or
\* StackDidNotChange, whichever call raised it.
C4_NoSignalEscapes ==
    \A s \in DOMAIN stacks : \A L \in Launches(s) :
        ~(L.result.kind = "raised" /\ L.result.name \in Signals)

\* C4 amended: a StackDoesNotExist or StackDidNotChange raised by
\* update_stack, and a StackDoesNotExist raised by get_stack during the
\* fallback, do not propagate out of _launch_stack: the launch goes on to a
\* Status, to create_stack or to the missing-parameter check.
C4_UpdateAndFallbackSignalsAbsorbed ==
    \A s \in DOMAIN stacks : \A L \in Launches(s) :
        /\ ~(/\ L.result.kind = "raised"
             /\ L.result.name \in Signals
             /\ L.result.from = "update_stack")
        /\ ~(/\ L.result.kind = "raised"
             /\ L.result.name = "StackDoesNotExist"
             /\ L.result.from = "get_stack")
        /\ L.done =>
              /\ \A i \in CallsNamed(L.calls, "update_stack") :
                    L.calls[i].outcome \in Signals =>
                        \/ L.result.kind = "status"
                        \/ CallsNamed(L.calls, "create_stack") # {}
              /\ \A i \in CallsNamed(L.calls, "get_stack") :
                    L.calls[i].outcome = "StackDoesNotExist" =>
                        L.result.name # "StackDoesNotExist"

\* get_stack raised StackDoesNotExist during the fallback, and the launch
\* ended with MissingParameterException, not with that signal
C4_Witness ==
    \E s \in DOMAIN stacks :
        /\ lpc[s] = "done"
        /\ \E i \in CallsNamed(calls[s], "get_stack") :
              calls[s][i].outcome = "StackDoesNotExist"
        /\ result[s].kind = "raised"
        /\ result[s].name = "MissingParameterException"

\* C9: for an enabled stack that is not locked or is forced, once an
\* invocation has ended in SubmittedStatus or DidNotChangeStatus, the next
\* invocation calls no create_stack and, unless a collaborator fails
\* (stack.resolve, the push or the provider raises an error), ends in
\* DidNotChangeStatus.
C9_SecondLaunchDidNotChange ==
    \A s \in DOMAIN stacks :
        (/\ stacks[s].enabled
         /\ ~stacks[s].locked \/ stacks[s].force
         /\ history[s] # <<>>
         /\ history[s][Len(history[s])].result.kind = "status"
         /\ lpc[s] # "idle") =>
            /\ "create_stack" \notin CallNames(calls[s])
            /\ lpc[s] = "done" =>
                  \/ /\ result[s].kind = "status"
                     /\ result[s].name = "DidNotChangeStatus"
                  \/ /\ result[s].kind = "raised"
                     /\ \/ result[s].name \in {"ProviderError", "PushError"}
                        \/ result[s].from = "resolve"

\* the first launch filled a parameter from the deployed stack and updated
\* it; the second found no change
C9_Witness ==
    \E s \in DOMAIN stacks :
        /\ Len(history[s]) = 1
        /\ "get_stack" \in CallNames(history[s][1].calls)
        /\ history[s][1].result.name = "SubmittedStatus"
        /\ lpc[s] = "done"
        /\ "get_stack" \in CallNames(calls[s])
        /\ result[s].name = "DidNotChangeStatus"

\* the calls of update_stack and create_stack of a launch
Submissions(L) ==
    CallsNamed(L.calls, "update_stack") \cup CallsNamed(L.calls, "create_stack")

RoundTrips ==
    {"resolve", "s3_stack_push", "get_stack", "update_stack", "create_stack"}

StatusNames ==
    {"NotSubmittedStatus", "NotUpdatedStatus", "DidNotChangeStatus",
     "SubmittedStatus"}

\* the call ended in an exception that the launch does not handle
Propagates(c) ==
    /\ c.outcome \notin {"ok", "True", "False"}
    /\ ~(c.name = "update_stack" /\ c.outcome \in Signals)
    /\ ~(c.name = "get_stack" /\ c.outcome = "StackDoesNotExist")

\* C14: an invocation that has ended returned one of the four Statuses or
\* raised, and one that has not ended has no result; within an invocation
\* update_stack is called at most once, create_stack at most once and never
\* before update_stack, no collaborator is called twice, and a call whose
\* exception is not handled is the last call of the invocation.
C14_AtMostOneSubmission ==
    \A s \in DOMAIN stacks : \A L \in Launches(s) :
        /\ L.done =>
              \/ L.result.kind = "status" /\ L.result.name \in StatusNames
              \/ L.result.kind = "raised"
        /\ ~L.done => L.result = NoResult
        /\ \A n \in RoundTrips : Cardinality(CallsNamed(L.calls, n)) <= 1
        /\ \A i \in CallsNamed(L.calls, "update_stack") :
              \A j \in CallsNamed(L.calls, "create_stack") : i < j
        /\ \A i \in DOMAIN L.calls :
              Propagates(L.calls[i]) =>
                  /\ i = Len(L.calls)
                  /\ L.done
                  /\ L.result.kind = "raised"

\* update_stack raised StackDoesNotExist, then create_stack failed
C14_Witness ==
    \E s \in DOMAIN stacks :
        /\ lpc[s] = "done"
        /\ Cardinality(CallsNamed(calls[s], "update_stack")) = 1
        /\ \E j \in CallsNamed(calls[s], "create_stack") :
              calls[s][j].outcome = "ProviderError"
        /\ result[s].kind = "raised"

\* C15: in a launch of an enabled stack, when should_update is evaluated,
\* stack.resolve, s3_stack_push, _build_stack_tags and build_parameters have
\* each been called once, in that order, whatever locked and force are; a
\* launch that returns a Status has evaluated it once, and a locked,
\* unforced launch that has evaluated it has ended in NotUpdatedStatus,
\* having called neither update_stack nor create_stack.
C15_PrepareBeforeGate ==
    \A s \in DOMAIN stacks : \A L \in Launches(s) :
        stacks[s].enabled =>
            /\ \A g \in CallsNamed(L.calls, "should_update") :
                  \E r, p, t, b \in 1..g :
                      /\ r < p /\ p < t /\ t < b /\ b < g
                      /\ CallsNamed(L.calls, "resolve") = {r}
                      /\ CallsNamed(L.calls, "s3_stack_push") = {p}
                      /\ CallsNamed(L.calls, "_build_stack_tags") = {t}
                      /\ CallsNamed(L.calls, "build_parameters") = {b}
            /\ (L.done /\ L.result.kind = "status") =>
                  Cardinality(CallsNamed(L.calls, "should_update")) = 1
            /\ (/\ stacks[s].locked /\ ~stacks[s].force
                /\ "should_update" \in CallNames(L.calls)) =>
                  /\ L.done
                  /\ L.result = NotUpdatedStatus
                  /\ CallNames(L.calls)
                        \cap {"update_stack", "create_stack"} = {}

\* a locked, unforced stack whose required parameter came from the deployed
\* stack has ended in NotUpdatedStatus
C15_Witness ==
    \E s \in DOMAIN stacks :
        /\ stacks[s].enabled /\ stacks[s].locked /\ ~stacks[s].force
        /\ lpc[s] = "done"
        /\ "get_stack" \in CallNames(calls[s])
        /\ result[s].name = "NotUpdatedStatus"

\* C16: a launch in which update_stack raised anything but StackDoesNotExist
\* and StackDidNotChange ends by raising that error and calls no
\* create_stack; one in which create_stack raised ends by raising that
\* error; one in which get_stack raised anything but StackDoesNotExist ends
\* by raising that error; one that ends with MissingParameterException has
\* called neither update_stack nor create_stack; and a launch that raised
\* returned no Status.
C16_ErrorsPropagate ==
    \A s \in DOMAIN stacks : \A L \in Launches(s) :
        /\ \A i \in CallsNamed(L.calls, "get_stack") :
              L.calls[i].outcome \notin {"StackDoesNotExist", "ok"} =>
                  /\ L.done
                  /\ L.result = Raised(L.calls[i].outcome, "get_stack", {})
                  /\ Submissions(L) = {}
        /\ \A i \in CallsNamed(L.calls, "update_stack") :
              L.calls[i].outcome \notin Signals \cup {"ok"} =>
                  /\ L.done
                  /\ L.result = Raised(L.calls[i].outcome, "update_stack", {})
                  /\ CallsNamed(L.calls, "create_stack") = {}
        /\ \A i \in CallsNamed(L.calls, "create_stack") :
              L.calls[i].outcome # "ok" =>
                  /\ L.done
                  /\ L.result = Raised(L.calls[i].outcome, "create_stack", {})
        /\ (L.result.kind = "raised"
            /\ L.result.name = "MissingParameterException") =>
              CallNames(L.calls) \cap {"update_stack", "create_stack"} = {}
        /\ L.result.kind = "raised" => L.result.name \notin StatusNames

\* update_stack raised an error of the provider
C16_Witness ==
    \E s \in DOMAIN stacks :
        /\ lpc[s] = "done"
        /\ \E i \in CallsNamed(calls[s], "update_stack") :
              calls[s][i].outcome = "ProviderError"
        /\ result[s].kind = "raised"
        /\ result[s].name = "ProviderError"

\* the required parameters of s given as None or not given at all
UnsetRequired(s) ==
    {k \in stacks[s].required :
        \/ k \notin DOMAIN stacks[s].parameter_values
        \/ stacks[s].parameter_values[k] = NoneV}

\* the parameters of the deployed stack s, as a set of keys
RemoteKeys(s) ==
    IF remote[s].exists
    THEN {p.ParameterKey : p \in remote[s].Parameters}
    ELSE {}

\* C18: in a launch of a stack with a required parameter given as None or
\* not given, every parameter list submitted holds for that key the value
\* the deployed stack has, read by get_stack; once get_stack has answered,
\* the launch raises MissingParameterException naming exactly those keys the
\* deployed stack lacks, if any; and no submitted value is None.
C18_UnsetRequiredIsMissing ==
    \A s \in DOMAIN stacks : \A L \in Launches(s) :
        /\ \A i \in Submissions(L) : \A p \in L.calls[i].args[3] :
              /\ p.ParameterValue[1] = "str"
              /\ p.ParameterValue[2] \notin {"None", ""}
        /\ UnsetRequired(s) # {} =>
              /\ \A i \in Submissions(L) :
                    /\ \E g \in CallsNamed(L.calls, "get_stack") :
                          g < i /\ L.calls[g].outcome = "ok"
                    /\ \A k \in UnsetRequired(s) :
                          \E p \in L.calls[i].args[3] :
                              /\ p.ParameterKey = k
                              /\ p \in remote[s].Parameters
              /\ \A g \in CallsNamed(L.calls, "get_stack") :
                    L.calls[g].outcome \in {"ok", "StackDoesNotExist"} =>
                        IF UnsetRequired(s) \subseteq RemoteKeys(s)
                        THEN L.result.name # "MissingParameterException"
                        ELSE L.result =
                                 Raised("MissingParameterException",
                                        "_handle_missing_parameters",
                                        UnsetRequired(s) \ RemoteKeys(s))

\* a required parameter given as None was submitted with the deployed value
C18_Witness ==
    \E s \in DOMAIN stacks : \E k \in stacks[s].required :
        /\ k \in DOMAIN stacks[s].parameter_values
        /\ stacks[s].parameter_values[k] = NoneV
        /\ lpc[s] = "done"
        /\ \E i \in CallsNamed(calls[s], "update_stack") :
              /\ calls[s][i].outcome = "ok"
              /\ [ParameterKey |-> k, ParameterValue |-> StrV("4")]
                     \in calls[s][i].args[3]

\* C20: create_stack is called right after the update_stack that raised
\* StackDoesNotExist, with the stack name, template URL, parameter list and
\* tags that update_stack was given: nothing is resolved, pushed or built
\* between the two calls.
C20_CreateReusesUpdateArgs ==
    \A s \in DOMAIN stacks : \A L \in Launches(s) :
        /\ \A j \in CallsNamed(L.calls, "create_stack") :
              /\ j > 1
              /\ L.calls[j - 1].name = "update_stack"
              /\ L.calls[j - 1].outcome = "StackDoesNotExist"
              /\ L.calls[j].args = L.calls[j - 1].args
        /\ \A i \in CallsNamed(L.calls, "update_stack") :
              (L.calls[i].outcome = "StackDoesNotExist" /\ i < Len(L.calls)) =>
                  L.calls[i + 1].name = "create_stack"

\* a stack with a parameter was created after update_stack found no stack
C20_Witness ==
    \E s \in DOMAIN stacks :
        /\ lpc[s] = "done"
        /\ \E j \in CallsNamed(calls[s], "create_stack") :
              /\ calls[s][j].outcome = "ok"
              /\ calls[s][j].args[3] # {}
              /\ calls[s][j].args[1] = s

----------------------------------------------------------------------------
(* Claims about the plan and the build driver (Spec) *)

\* C8: the plan _generate_plan builds holds every stack of the context
\* once, with _launch_stack as run function and the stack's whole requires
\* set as its edges; and under plan.execute no _launch_stack(s) has begun
\* while a stack s requires has not completed with a Status.
C8_DependencyOrdering ==
    /\ plan.built =>
          /\ DOMAIN plan.steps = DOMAIN stacks
          /\ \A s \in DOMAIN stacks :
                /\ plan.added[s] = 1
                /\ plan.steps[s].run_func = "_launch_stack"
                /\ plan.steps[s].requires = stacks[s].requires
    /\ \A s \in DOMAIN stacks :
          lpc[s] # "idle" =>
              /\ plan.built
              /\ \A d \in stacks[s].requires :
                    lpc[d] = "done" /\ result[d].kind = "status"

\* a stack is being launched after a stack it requires ended NotSubmitted
C8_Witness ==
    \E s \in DOMAIN stacks : \E d \in stacks[s].requires :
        /\ lpc[s] \notin {"idle", "done"}
        /\ result[d].name = "NotSubmittedStatus"

\* C10: with outline or dump set, pre_run, run and post_run call neither
\* util.handle_hooks nor plan.execute and no launch begins, so no
\* update_stack or create_stack is issued; hooks and plan.execute are called
\* only when both flags are false.
C10_OutlineDumpNoSideEffects ==
    /\ (opts.outline \/ opts.dump) =>
          /\ BNames \cap {"handle_hooks", "plan.execute"} = {}
          /\ \A s \in DOMAIN stacks :
                /\ lpc[s] = "idle"
                /\ CallNames(calls[s]) \cap {"update_stack", "create_stack"} = {}
    /\ BNames \cap {"handle_hooks", "plan.execute"} # {} =>
          ~opts.outline /\ ~opts.dump

\* a dump of a build that has pre_build and post_build hooks has finished
C10_Witness ==
    /\ bpc = "done"
    /\ opts.dump /\ ~opts.outline
    /\ config.pre_build /\ config.post_build
    /\ "plan.dump" \in BNames

\* what belongs to the launch of stack s, and its deployed stack
LaunchState(s) == <<lpc[s], loc[s], calls[s], result[s], remote[s]>>

\* the arguments a launch of s alone submits: a function of the stack's
\* definition and of its own deployed stack
ExpectedArgs(s) ==
    LET resolved == _resolve_parameters(stacks[s].parameter_values,
                                        stacks[s].param_defs)
        existing == IF remote[s].exists THEN Describe(s, remote[s])
                    ELSE NoDescription
        filled == FillFromExisting(resolved,
                                   MissingParams(resolved, stacks[s].required),
                                   existing)
    IN  <<s, TemplateUrl(stacks[s]), ParameterDicts(Items(filled)),
          _build_stack_tags(ContextTags)>>

\* the Status a launch of s alone returns, given what the provider answered
\* to its own update_stack
ExpectedStatus(s) ==
    IF ~should_submit(stacks[s]) THEN NotSubmittedStatus
    ELSE IF ~should_update(stacks[s]) THEN NotUpdatedStatus
    ELSE LET i == CHOOSE i \in CallsNamed(calls[s], "update_stack") : TRUE
             r == UpdateResult(calls[s][i].outcome)
         IN  IF r = NoResult THEN SubmittedStatus("CREATE_STACK") ELSE r

\* every submission and the Status of the launch of s are those of a launch
\* alone
LaunchedAsAlone(s) ==
    /\ \A i \in CallsNamed(calls[s], "update_stack")
                \cup CallsNamed(calls[s], "create_stack") :
          calls[s][i].args = ExpectedArgs(s)
    /\ (lpc[s] = "done" /\ result[s].kind = "status") =>
          result[s] = ExpectedStatus(s)

\* C13: with launches of distinct stacks interleaved at their round trips,
\* a step of one launch changes neither the position, the local variables,
\* the call log and the result of another launch nor another stack's
\* deployed stack; and the arguments each launch submits and the Status it
\* returns are those of a launch alone, a function of its own stack
\* definition, its own deployed stack and the provider's answer to it.
C13_Reentrant ==
    [][\A s \in DOMAIN stacks :
          LaunchState(s)' # LaunchState(s) =>
              /\ \A u \in DOMAIN stacks \ {s} :
                    LaunchState(u)' = LaunchState(u)
              /\ LaunchedAsAlone(s)']_vars

\* two launches are in flight: one has built its parameters and is about to
\* call update_stack while the other waits for get_stack
C13_Witness ==
    \E s, u \in DOMAIN stacks :
        /\ s # u
        /\ lpc[s] = "update_stack"
        /\ lpc[u] = "get_stack"

\* C17: once util.handle_hooks has raised HookFailure for the pre_build
\* hooks the build has failed: no plan is built or executed and no launch
\* begins; and the post_build hooks are called only after plan.execute has
\* returned, when no launch is in flight.
C17_HookFailureOrdering ==
    /\ (\E i \in DOMAIN blog :
           blog[i] = BCall("handle_hooks", "pre_build", "HookFailure")) =>
          /\ bpc = "failed"
          /\ ~plan.built
          /\ "plan.execute" \notin BNames
          /\ \A s \in DOMAIN stacks : lpc[s] = "idle" /\ calls[s] = <<>>
    /\ \A i \in DOMAIN blog :
          (blog[i].name = "handle_hooks" /\ blog[i].stage = "post_build") =>
              /\ \E j \in 1..(i - 1) : blog[j] = BCall("plan.execute", "", "ok")
              /\ \A s \in DOMAIN stacks : lpc[s] \in {"idle", "done"}
              /\ blog[i].outcome = "HookFailure" => bpc = "failed"

\* the pre_build hooks of a build with two stacks failed
C17_Witness ==
    /\ blog = <<BCall("handle_hooks", "pre_build", "HookFailure")>>
    /\ bpc = "failed"
    /\ config.pre_build /\ config.post_build

----------------------------------------------------------------------------
(* Claims about the whole lifecycle (SpecDriver) *)

Unresolved == \E s \in DOMAIN stacks : stacks[s].requires \ DOMAIN stacks # {}

====
